---- MODULE Spec2Model ----
(***************************************************************************)
(* Model of src/export_reqif_pdf.py (class ReqIFExtractor): the pipeline   *)
(* run() = parse; extract_objects; extract_hierarchy; generate_pdf, and    *)
(* the pure helper wrap().                                                 *)
(*                                                                         *)
(* Python strings are TLA+ strings.  Python's None is the reserved token   *)
(* None, the absence of an XML element is the reserved token NoElem; no    *)
(* identifier or text of the input families equals either token.           *)
(*                                                                         *)
(* Lengths are integers in units of 1/127 point: reportlab's mm is         *)
(* 72/25.4 = 360/127 point, so every length the layout computes from A4,   *)
(* mm and whole points is an exact integer in this unit.                   *)
(***************************************************************************)
EXTENDS Integers, Sequences, FiniteSets, TLC

VARIABLES
  pc,         \* position in run() / in the wrap() call
  doc,        \* the parsed input document (self.root once parse() has run)
  objects,    \* self.objects
  hierarchy,  \* self.hierarchy
  objIdx,     \* extract_objects: next SPEC-OBJECT of the loop
  specIdx,    \* extract_hierarchy: next SPECIFICATION of the loop
  stack,      \* call stack of _walk_hierarchy, innermost call first
  y,          \* generate_pdf: vertical cursor
  ops,        \* canvas operations performed so far, in order
  reqIdx,     \* generate_pdf: index into self.hierarchy
  itemIdx,    \* generate_pdf: index into obj["content"]
  lineIdx,    \* generate_pdf: index into the wrapped lines of a text item
  lines,      \* generate_pdf: the wrapped lines of the current text item
  wtext,      \* wrap(): argument text
  wmax,       \* wrap(): argument max_len
  wres        \* wrap(): returned list of lines

vars == <<pc, doc, objects, hierarchy, objIdx, specIdx, stack,
          y, ops, reqIdx, itemIdx, lineIdx, lines, wtext, wmax, wres>>

extractVars == <<objects, hierarchy, objIdx, specIdx, stack>>

pdfVars == <<y, ops, reqIdx, itemIdx, lineIdx, lines>>

wrapVars == <<wtext, wmax, wres>>

-----------------------------------------------------------------------------
(* Bounds of the input families *)

MaxNodes == 4

MaxItems == 4

MaxReqs == 2

LongLines == 13

MaxText == 5

MaxWidth == 3

-----------------------------------------------------------------------------
(* Python values and string helpers *)

None == "<None>"

NoElem == "<no element>"

Min(a, b) == IF a <= b THEN a ELSE b

Char(s, i) == SubSeq(s, i, i)

Digit(d) == Char("0123456789", d + 1)

RECURSIVE Str(_)
Str(n) == IF n < 10 THEN Digit(n) ELSE Str(n \div 10) \o Digit(n % 10)

RECURSIVE Join(_, _)
Join(sep, ss) ==
  IF ss = <<>> THEN ""
  ELSE IF Len(ss) = 1 THEN ss[1]
  ELSE ss[1] \o sep \o Join(sep, Tail(ss))

IsSpace(c) == c = " "

\* str.strip(): drop leading and trailing whitespace
Strip(s) ==
  LET keep == {i \in 1..Len(s) : ~IsSpace(Char(s, i))}
  IN  IF keep = {} THEN ""
      ELSE SubSeq(s, CHOOSE i \in keep : \A j \in keep : i <= j,
                     CHOOSE i \in keep : \A j \in keep : i >= j)

\* str.isdigit(): non-empty and every character a decimal digit
IsDigit(s) ==
  /\ Len(s) > 0
  /\ \A i \in 1..Len(s) : \E d \in 0..9 : Char(s, i) = Digit(d)

RECURSIVE Zfill(_, _)
Zfill(s, w) == IF Len(s) >= w THEN s ELSE Zfill("0" \o s, w)

-----------------------------------------------------------------------------
(* The parsed document: SPEC-OBJECTS and SPECIFICATIONS.  A SPECIFICATION's *)
(* tree of SPEC-HIERARCHY elements is kept in document order: node i has    *)
(* nesting depth depth[i] below the specification's CHILDREN element, the   *)
(* text ref[i] of its OBJECT/SPEC-OBJECT-REF (NoElem: no such element) and  *)
(* kids[i], whether it has a CHILDREN element.                              *)

NodeCount(sp) == Len(sp.depth)

\* first SPEC-HIERARCHY of the CHILDREN element of node p (p = 0: of the
\* specification), 0 when there is none
FirstChild(sp, p) ==
  IF /\ p + 1 <= NodeCount(sp)
     /\ sp.depth[p + 1] = (IF p = 0 THEN 0 ELSE sp.depth[p] + 1)
  THEN p + 1 ELSE 0

\* the SPEC-HIERARCHY following node j under the same parent, 0 when none
NextSibling(sp, j) ==
  LET later == {k \in (j + 1)..NodeCount(sp) : sp.depth[k] <= sp.depth[j]}
  IN  IF later = {} THEN 0
      ELSE LET k == CHOOSE m \in later : \A n \in later : m <= n
           IN  IF sp.depth[k] = sp.depth[j] THEN k ELSE 0

-----------------------------------------------------------------------------
(* extract_objects *)

ReqId(number, oid) ==
  IF IsDigit(number) THEN "REQ-" \o Zfill(number, 6) ELSE oid

RECURSIVE Heading(_)
Heading(items) ==
  IF items = <<>> THEN ""
  ELSE (IF Head(items).kind = "text" THEN Head(items).val \o " " ELSE "")
       \o Heading(Tail(items))

\* NewObject with a placeholder number instead of the empty default
NewObjectPlaceholder(so) ==
  LET number == IF so.number = NoElem THEN "" ELSE so.number
  IN  [req_id  |-> ReqId(number, so.id),
       heading |-> Strip(Heading(so.heading)),
       content |-> so.content,
       level   |-> 0,
       hnum    |-> "0"]

NewObject(so) ==
  LET number == IF so.number = NoElem THEN "" ELSE so.number
  IN  [req_id  |-> ReqId(number, so.id),
       heading |-> Strip(Heading(so.heading)),
       content |-> so.content,
       level   |-> 0,
       hnum    |-> ""]

Store(objs, oid, rec) ==
  [k \in DOMAIN objs \cup {oid} |-> IF k = oid THEN rec ELSE objs[k]]

-----------------------------------------------------------------------------
(* _walk_hierarchy: one call is a frame [sp, counters, level, index, nxt], *)
(* nxt the SPEC-HIERARCHY the for loop takes next (0: loop exhausted).     *)

\* sp is the index of the SPECIFICATION the walk is in
Frame(sp, counters, level, first) ==
  [sp |-> sp, counters |-> counters, level |-> level, index |-> 0,
   nxt |-> first]

\* Current with the slice one element short
CurrentShortSlice(counters, level, index) ==
  SubSeq(counters, 1, Min(level - 1, Len(counters))) \o <<index>>

\* counters[:level] + [index]
Current(counters, level, index) ==
  SubSeq(counters, 1, Min(level, Len(counters))) \o <<index>>

RECURSIVE StrAll(_)
StrAll(is) == IF is = <<>> THEN <<>> ELSE <<Str(Head(is))>> \o StrAll(Tail(is))

Hnum(current) == Join(".", StrAll(current))

Resolves(ref, objs) == ref # NoElem /\ ref \in DOMAIN objs

Top == Head(stack)

TopSpec == doc.specs[Top.sp]

-----------------------------------------------------------------------------
(* Input families *)

TextItem(s) == [kind |-> "text", val |-> s]

ObjA ==
  [id |-> "a", number |-> "42", heading |-> <<TextItem("Scope")>>,
   content |-> <<>>]

ObjB ==
  [id |-> "b", number |-> NoElem, heading |-> <<>>,
   content |-> <<TextItem("shall do")>>]

\* a SPEC-OBJECT element without IDENTIFIER attribute
ObjNoId ==
  [id |-> None, number |-> "x7", heading |-> <<TextItem("Lost")>>,
   content |-> <<>>]

\* reference texts of a hierarchy: known and unknown identifiers, or a
\* known identifier and nodes without SPEC-OBJECT-REF
RefSets == {{"a", "b", "zz"}, {"a", NoElem}}

\* depth sequences of the ordered forests with n nodes, in document order
Depths(n) ==
  {d \in [1..n -> 0..(n - 1)] :
     /\ n > 0 => d[1] = 0
     /\ \A i \in 1..(n - 1) : d[i + 1] <= d[i] + 1}

\* a SPECIFICATION with a CHILDREN element; the nodes of empties have an
\* empty CHILDREN element
Specification(d, r, empties) ==
  LET sp == [children |-> TRUE, depth |-> d, ref |-> r]
  IN  [children |-> TRUE, depth |-> d, ref |-> r,
       kids |-> [i \in 1..Len(d) |-> FirstChild(sp, i) # 0 \/ i \in empties]]

NoChildrenSpec ==
  [children |-> FALSE, depth |-> <<>>, ref |-> <<>>, kids |-> <<>>]

ForestsOver(refs, m) ==
  UNION {{Specification(d, r, {}) : d \in Depths(n), r \in [1..n -> refs]} :
           n \in 0..m}

ForestsUpTo(m) == UNION {ForestsOver(refs, m) : refs \in RefSets}

Forests == ForestsUpTo(MaxNodes)

Document(hasObjs, sos, hasSpecs, sps) ==
  [hasObjs |-> hasObjs, specObjects |-> sos,
   hasSpecs |-> hasSpecs, specs |-> sps]

\* documents with several specifications, empty or absent CHILDREN
\* elements, empty SPEC-OBJECT-REF elements, a SPEC-OBJECT without
\* identifier, and documents without SPEC-OBJECTS or SPECIFICATIONS
SpecialDocs ==
  {Document(FALSE, <<>>, TRUE, <<Specification(<<0>>, <<"a">>, {})>>),
   Document(TRUE, <<ObjA>>, FALSE, <<>>),
   Document(FALSE, <<>>, FALSE, <<>>),
   Document(TRUE, <<ObjA, ObjB>>, TRUE,
            <<Specification(<<0, 1>>, <<"a", "b">>, {2}),
              NoChildrenSpec,
              Specification(<<0, 0>>, <<"zz", "b">>, {1})>>),
   Document(TRUE, <<ObjA, ObjNoId>>, TRUE,
            <<Specification(<<0, 1>>, <<"a", None>>, {})>>),
   Document(TRUE, <<ObjNoId, ObjB>>, TRUE,
            <<Specification(<<0, 0>>, <<None, "b">>, {})>>),
   Document(TRUE, <<ObjA, ObjNoId>>, TRUE,
            <<Specification(<<0>>, <<"a">>, {})>>)}

HierDocs ==
  {Document(TRUE, <<ObjA, ObjB>>, TRUE, <<f>>) : f \in Forests}
  \cup SpecialDocs

-----------------------------------------------------------------------------
(* State after ReqIFExtractor.__init__, for a document of family D *)

InitRun(D) ==
  /\ pc = "start"
  /\ doc \in D
  /\ objects = <<>>
  /\ hierarchy = <<>>
  /\ objIdx = 1
  /\ specIdx = 1
  /\ stack = <<>>
  /\ y = 0
  /\ ops = <<>>
  /\ reqIdx = 1
  /\ itemIdx = 1
  /\ lineIdx = 1
  /\ lines = <<>>
  /\ wtext = ""
  /\ wmax = 0
  /\ wres = <<>>

-----------------------------------------------------------------------------
(* run(): parse, extract_objects, extract_hierarchy *)

Parse ==
  /\ pc = "start"
  /\ pc' = "parsed"
  /\ UNCHANGED <<doc, extractVars, pdfVars, wrapVars>>

\* objs is None: objs.findall raises
ExtractObjectsFail ==
  /\ pc = "parsed"
  /\ ~doc.hasObjs
  /\ pc' = "failed"
  /\ UNCHANGED <<doc, extractVars, pdfVars, wrapVars>>

\* one iteration of the loop over SPEC-OBJECT
ExtractObject ==
  /\ pc = "parsed"
  /\ doc.hasObjs
  /\ objIdx <= Len(doc.specObjects)
  /\ LET so == doc.specObjects[objIdx]
     IN  objects' = Store(objects, so.id, NewObject(so))
  /\ objIdx' = objIdx + 1
  /\ UNCHANGED <<pc, doc, hierarchy, specIdx, stack, pdfVars, wrapVars>>

ExtractObjectsDone ==
  /\ pc = "parsed"
  /\ doc.hasObjs
  /\ objIdx > Len(doc.specObjects)
  /\ pc' = "objects"
  /\ UNCHANGED <<doc, extractVars, pdfVars, wrapVars>>

\* specs is None: specs.findall raises
ExtractHierarchyFail ==
  /\ pc = "objects"
  /\ ~doc.hasSpecs
  /\ pc' = "failed"
  /\ UNCHANGED <<doc, extractVars, pdfVars, wrapVars>>

ExtractHierarchy ==
  /\ pc = "objects"
  /\ doc.hasSpecs
  /\ pc' = "walk"
  /\ UNCHANGED <<doc, extractVars, pdfVars, wrapVars>>

\* one iteration of the loop over SPECIFICATION
NextSpecification ==
  /\ pc = "walk"
  /\ stack = <<>>
  /\ specIdx <= Len(doc.specs)
  /\ stack' = IF doc.specs[specIdx].children
              THEN <<Frame(specIdx, <<>>, 0, FirstChild(doc.specs[specIdx], 0))>>
              ELSE <<>>
  /\ specIdx' = specIdx + 1
  /\ UNCHANGED <<pc, doc, objects, hierarchy, objIdx, pdfVars, wrapVars>>

\* WalkNode with the sibling counter advanced for resolved nodes only
WalkNodeCountResolved ==
  /\ pc = "walk"
  /\ stack # <<>>
  /\ Top.nxt # 0
  /\ LET sh      == Top.nxt
         ref     == TopSpec.ref[sh]
         index   == IF Resolves(ref, objects) THEN Top.index + 1 ELSE Top.index
         current == Current(Top.counters, Top.level, index)
         hnum    == Hnum(current)
         caller  == [Top EXCEPT !.index = index,
                                !.nxt = NextSibling(TopSpec, sh)]
     IN  /\ IF Resolves(ref, objects)
            THEN /\ objects' = [objects EXCEPT ![ref].level = Top.level,
                                               ![ref].hnum = hnum]
                 /\ hierarchy' = Append(hierarchy, ref)
            ELSE UNCHANGED <<objects, hierarchy>>
         /\ stack' = IF TopSpec.kids[sh]
                     THEN <<Frame(Top.sp, current, Top.level + 1,
                                  FirstChild(TopSpec, sh))>>
                          \o <<caller>> \o Tail(stack)
                     ELSE <<caller>> \o Tail(stack)
  /\ UNCHANGED <<pc, doc, objIdx, specIdx, pdfVars, wrapVars>>

\* WalkNode with the recursion into CHILDREN inside the resolved branch
WalkNodeRecurseResolved ==
  /\ pc = "walk"
  /\ stack # <<>>
  /\ Top.nxt # 0
  /\ LET sh      == Top.nxt
         index   == Top.index + 1
         current == Current(Top.counters, Top.level, index)
         hnum    == Hnum(current)
         ref     == TopSpec.ref[sh]
         caller  == [Top EXCEPT !.index = index,
                                !.nxt = NextSibling(TopSpec, sh)]
     IN  /\ IF Resolves(ref, objects)
            THEN /\ objects' = [objects EXCEPT ![ref].level = Top.level,
                                               ![ref].hnum = hnum]
                 /\ hierarchy' = Append(hierarchy, ref)
            ELSE UNCHANGED <<objects, hierarchy>>
         /\ stack' = IF TopSpec.kids[sh] /\ Resolves(ref, objects)
                     THEN <<Frame(Top.sp, current, Top.level + 1,
                                  FirstChild(TopSpec, sh))>>
                          \o <<caller>> \o Tail(stack)
                     ELSE <<caller>> \o Tail(stack)
  /\ UNCHANGED <<pc, doc, objIdx, specIdx, pdfVars, wrapVars>>

\* one iteration of the loop over SPEC-HIERARCHY in _walk_hierarchy
WalkNode ==
  /\ pc = "walk"
  /\ stack # <<>>
  /\ Top.nxt # 0
  /\ LET sh      == Top.nxt
         index   == Top.index + 1
         current == Current(Top.counters, Top.level, index)
         hnum    == Hnum(current)
         ref     == TopSpec.ref[sh]
         caller  == [Top EXCEPT !.index = index,
                                !.nxt = NextSibling(TopSpec, sh)]
     IN  /\ IF Resolves(ref, objects)
            THEN /\ objects' = [objects EXCEPT ![ref].level = Top.level,
                                               ![ref].hnum = hnum]
                 /\ hierarchy' = Append(hierarchy, ref)
            ELSE UNCHANGED <<objects, hierarchy>>
         /\ stack' = IF TopSpec.kids[sh]
                     THEN <<Frame(Top.sp, current, Top.level + 1,
                                  FirstChild(TopSpec, sh))>>
                          \o <<caller>> \o Tail(stack)
                     ELSE <<caller>> \o Tail(stack)
  /\ UNCHANGED <<pc, doc, objIdx, specIdx, pdfVars, wrapVars>>

\* the loop over SPEC-HIERARCHY is exhausted: _walk_hierarchy returns
WalkReturn ==
  /\ pc = "walk"
  /\ stack # <<>>
  /\ Top.nxt = 0
  /\ stack' = Tail(stack)
  /\ UNCHANGED <<pc, doc, objects, hierarchy, objIdx, specIdx, pdfVars,
                 wrapVars>>

ExtractHierarchyDone ==
  /\ pc = "walk"
  /\ stack = <<>>
  /\ specIdx > Len(doc.specs)
  /\ pc' = "hier"
  /\ UNCHANGED <<doc, extractVars, pdfVars, wrapVars>>

-----------------------------------------------------------------------------
(* wrap *)

\* str.split(): the maximal runs of non-whitespace characters, in order
Words(text) ==
  LET n       == Len(text)
      starts  == {i \in 1..n : /\ ~IsSpace(Char(text, i))
                               /\ (i = 1 \/ IsSpace(Char(text, i - 1)))}
      EndOf(i) == CHOOSE j \in i..n :
                    /\ \A k \in i..j : ~IsSpace(Char(text, k))
                    /\ (j = n \/ IsSpace(Char(text, j + 1)))
      Nth(k)  == CHOOSE i \in starts :
                    Cardinality({j \in starts : j < i}) = k - 1
  IN  [k \in 1..Cardinality(starts) |-> SubSeq(text, Nth(k), EndOf(Nth(k)))]

\* the loop over words, from the state (lines, cur), and the final append
RECURSIVE WrapLoop(_, _, _, _)
WrapLoop(words, ls, cur, max_len) ==
  IF words = <<>> THEN (IF cur # "" THEN Append(ls, cur) ELSE ls)
  ELSE LET w == Head(words)
       IN  IF Len(cur) + Len(w) + 1 <= max_len
           THEN WrapLoop(Tail(words), ls, Strip(cur \o " " \o w), max_len)
           ELSE WrapLoop(Tail(words), Append(ls, cur), w, max_len)

Wrap(text, max_len) == WrapLoop(Words(text), <<>>, "", max_len)

-----------------------------------------------------------------------------
(* generate_pdf: page geometry, in units of 1/127 point *)

pt == 127

mm == 360

width == 210 * mm

height == 297 * mm

margin == 20 * mm

Threshold == margin + 80 * pt

Indent(obj) == margin + obj.level * 12 * pt

\* ih * scale, scale = min((width - indent - 20) / iw, 200 / ih)
ScaledHeight(indent, iw, ih) ==
  Min(((width - indent - 20 * pt) * ih) \div iw, 200 * pt)

\* a canvas operation of requirement req (index into the traversal) and
\* content item item (0: none), at position (x, y)
Op(op, req, item, x, yy) ==
  [op |-> op, req |-> req, item |-> item, x |-> x, y |-> yy]

\* if y < margin + 80: new_page()
NeedsPage == y < Threshold

PageOps == IF NeedsPage THEN <<Op("showPage", reqIdx, 0, 0, 0)>> ELSE <<>>

PageY == IF NeedsPage THEN height - margin ELSE y

CurObj == objects[hierarchy[reqIdx]]

CurItem == CurObj.content[itemIdx]

\* canvas creation, title
GeneratePdf ==
  /\ pc = "hier"
  /\ ops' = <<Op("title", 0, 0, margin, height - margin)>>
  /\ y' = height - margin - 20 * pt
  /\ reqIdx' = 1
  /\ pc' = "req"
  /\ UNCHANGED <<doc, extractVars, itemIdx, lineIdx, lines, wrapVars>>

\* loop over self.hierarchy: page check and heading of the next requirement
DrawHeading ==
  /\ pc = "req"
  /\ reqIdx <= Len(hierarchy)
  /\ ops' = ops \o PageOps \o <<Op("heading", reqIdx, 0, Indent(CurObj), PageY)>>
  /\ y' = PageY - 14 * pt
  /\ itemIdx' = 1
  /\ pc' = "item"
  /\ UNCHANGED <<doc, extractVars, reqIdx, lineIdx, lines, wrapVars>>

\* a text item: page check, then the loop over self.wrap(val, 90) starts
DrawText ==
  /\ pc = "item"
  /\ itemIdx <= Len(CurObj.content)
  /\ CurItem.kind = "text"
  /\ ops' = ops \o PageOps
  /\ y' = PageY
  /\ lines' = Wrap(CurItem.val, 90)
  /\ lineIdx' = 1
  /\ pc' = "line"
  /\ UNCHANGED <<doc, extractVars, reqIdx, itemIdx, wrapVars>>

DrawLine ==
  /\ pc = "line"
  /\ lineIdx <= Len(lines)
  /\ ops' = Append(ops, Op("text", reqIdx, itemIdx, Indent(CurObj) + 10 * pt, y))
  /\ y' = y - 12 * pt
  /\ lineIdx' = lineIdx + 1
  /\ UNCHANGED <<pc, doc, extractVars, reqIdx, itemIdx, lines, wrapVars>>

TextDone ==
  /\ pc = "line"
  /\ lineIdx > Len(lines)
  /\ itemIdx' = itemIdx + 1
  /\ pc' = "item"
  /\ UNCHANGED <<doc, extractVars, y, ops, reqIdx, lineIdx, lines, wrapVars>>

\* an image item whose file exists and decodes
DrawImage ==
  /\ pc = "item"
  /\ itemIdx <= Len(CurObj.content)
  /\ CurItem.kind = "image"
  /\ CurItem.val.exists
  /\ CurItem.val.decodes
  /\ LET indent == Indent(CurObj)
         h      == ScaledHeight(indent, CurItem.val.iw, CurItem.val.ih)
     IN  /\ ops' = ops \o PageOps
                       \o <<Op("image", reqIdx, itemIdx, indent + 10 * pt,
                               PageY - h)>>
         /\ y' = PageY - (h + 10 * pt)
  /\ itemIdx' = itemIdx + 1
  /\ UNCHANGED <<pc, doc, extractVars, reqIdx, lineIdx, lines, wrapVars>>

\* an image item whose file exists and does not decode: ImageReader raises
ImageError ==
  /\ pc = "item"
  /\ itemIdx <= Len(CurObj.content)
  /\ CurItem.kind = "image"
  /\ CurItem.val.exists
  /\ ~CurItem.val.decodes
  /\ ops' = ops \o PageOps
  /\ y' = PageY
  /\ pc' = "failed"
  /\ UNCHANGED <<doc, extractVars, reqIdx, itemIdx, lineIdx, lines, wrapVars>>

\* SkipImage drawing a placeholder for the missing file
SkipImagePlaceholder ==
  /\ pc = "item"
  /\ itemIdx <= Len(CurObj.content)
  /\ CurItem.kind = "image"
  /\ ~CurItem.val.exists
  /\ ops' = ops \o PageOps
                \o <<Op("text", reqIdx, itemIdx, Indent(CurObj) + 10 * pt, PageY)>>
  /\ y' = PageY - 12 * pt
  /\ itemIdx' = itemIdx + 1
  /\ UNCHANGED <<pc, doc, extractVars, reqIdx, lineIdx, lines, wrapVars>>

\* an image item whose file does not exist: no branch of the if is taken
SkipImage ==
  /\ pc = "item"
  /\ itemIdx <= Len(CurObj.content)
  /\ CurItem.kind = "image"
  /\ ~CurItem.val.exists
  /\ ops' = ops \o PageOps
  /\ y' = PageY
  /\ itemIdx' = itemIdx + 1
  /\ UNCHANGED <<pc, doc, extractVars, reqIdx, lineIdx, lines, wrapVars>>

DrawOle ==
  /\ pc = "item"
  /\ itemIdx <= Len(CurObj.content)
  /\ CurItem.kind = "ole"
  /\ LET x == Indent(CurObj) + 10 * pt
     IN  ops' = ops \o PageOps
                    \o <<Op("ole", reqIdx, itemIdx, x, PageY),
                         Op("link", reqIdx, itemIdx, x, PageY - 2 * pt)>>
  /\ y' = PageY - 14 * pt
  /\ itemIdx' = itemIdx + 1
  /\ UNCHANGED <<pc, doc, extractVars, reqIdx, lineIdx, lines, wrapVars>>

\* the content is exhausted: inter-requirement spacing
EndRequirement ==
  /\ pc = "item"
  /\ itemIdx > Len(CurObj.content)
  /\ y' = y - 10 * pt
  /\ reqIdx' = reqIdx + 1
  /\ pc' = "req"
  /\ UNCHANGED <<doc, extractVars, ops, itemIdx, lineIdx, lines, wrapVars>>

Save ==
  /\ pc = "req"
  /\ reqIdx > Len(hierarchy)
  /\ ops' = Append(ops, Op("save", 0, 0, 0, 0))
  /\ pc' = "done"
  /\ UNCHANGED <<doc, extractVars, y, reqIdx, itemIdx, lineIdx, lines, wrapVars>>

-----------------------------------------------------------------------------
(* Input families of the layout *)

RECURSIVE Rep(_, _)
Rep(s, n) == IF n = 0 THEN "" ELSE s \o Rep(s, n - 1)

\* a text that wraps to LongLines lines at width 90
LongText ==
  TextItem(Join(" ", [k \in 1..LongLines |-> Rep("x", 46)]))

ImageItem(name, exists, decodes, iw, ih) ==
  [kind |-> "image",
   val  |-> [name |-> name, exists |-> exists, decodes |-> decodes,
             iw |-> iw, ih |-> ih]]

TallImg == ImageItem("tall.png", TRUE, TRUE, 100, 400)

WideImg == ImageItem("wide.png", TRUE, TRUE, 400, 100)

MissingImg == ImageItem("gone.png", FALSE, FALSE, 0, 0)

BadImg == ImageItem("bad.png", TRUE, FALSE, 0, 0)

Ole == [kind |-> "ole", val |-> "sheet.xlsx"]

Kinds == {LongText, TallImg, WideImg, MissingImg}

Contents == UNION {[1..k -> Kinds] : k \in 0..MaxItems}

ObjWith(id, c) ==
  [id |-> id, number |-> "7", heading |-> <<TextItem("Layout")>>,
   content |-> c]

\* one requirement with any content, followed by a second requirement
LayoutDocs ==
  {Document(TRUE, <<ObjWith("a", c), ObjB>>, TRUE,
            <<Specification(<<0, 0>>, <<"a", "b">>, {})>>) : c \in Contents}

SmallContents ==
  {<<>>, <<MissingImg, Ole>>, <<Ole, BadImg, Ole>>,
   <<TextItem("shall do"), MissingImg, TallImg>>}

\* any small hierarchy over requirements with little content
FlowDocs ==
  {Document(TRUE, <<ObjWith("a", c), ObjB>>, TRUE, <<f>>) :
     c \in SmallContents, f \in ForestsUpTo(MaxReqs)}

PdfDocs == LayoutDocs \cup FlowDocs \cup SpecialDocs

-----------------------------------------------------------------------------
(* wrap as a function of its arguments *)

Alphabet == {"a", "b", " "}

Texts == UNION {{Join("", f) : f \in [1..n -> Alphabet]} : n \in 0..MaxText}

InitWrap ==
  /\ pc = "wrap"
  /\ wtext \in Texts
  /\ wmax \in 1..MaxWidth
  /\ wres = <<>>
  /\ doc = Document(FALSE, <<>>, FALSE, <<>>)
  /\ objects = <<>>
  /\ hierarchy = <<>>
  /\ objIdx = 1
  /\ specIdx = 1
  /\ stack = <<>>
  /\ y = 0
  /\ ops = <<>>
  /\ reqIdx = 1
  /\ itemIdx = 1
  /\ lineIdx = 1
  /\ lines = <<>>

WrapCall ==
  /\ pc = "wrap"
  /\ wres' = Wrap(wtext, wmax)
  /\ pc' = "wrapped"
  /\ UNCHANGED <<doc, extractVars, pdfVars, wtext, wmax>>

NextWrap == WrapCall

SpecWrap == InitWrap /\ [][NextWrap]_vars

-----------------------------------------------------------------------------
(* Specifications of run() *)

Init == InitRun(PdfDocs)

Next ==
  \/ Parse
  \/ ExtractObjectsFail
  \/ ExtractObject
  \/ ExtractObjectsDone
  \/ ExtractHierarchyFail
  \/ ExtractHierarchy
  \/ NextSpecification
  \/ WalkNode
  \/ WalkReturn
  \/ ExtractHierarchyDone
  \/ GeneratePdf
  \/ DrawHeading
  \/ DrawText
  \/ DrawLine
  \/ TextDone
  \/ DrawImage
  \/ ImageError
  \/ SkipImage
  \/ DrawOle
  \/ EndRequirement
  \/ Save

Spec == Init /\ [][Next]_vars

\* run() up to the end of extract_hierarchy, over all small hierarchies
InitHier == InitRun(HierDocs)

NextHier ==
  \/ Parse
  \/ ExtractObjectsFail
  \/ ExtractObject
  \/ ExtractObjectsDone
  \/ ExtractHierarchyFail
  \/ ExtractHierarchy
  \/ NextSpecification
  \/ WalkNode
  \/ WalkReturn
  \/ ExtractHierarchyDone

SpecHier == InitHier /\ [][NextHier]_vars

-----------------------------------------------------------------------------
(* Reference notions for the properties, defined on the document alone *)

Range(f) == {f[i] : i \in DOMAIN f}

NoDuplicates(f) == \A i, j \in DOMAIN f : f[i] = f[j] => i = j

CountDots(s) == Cardinality({i \in 1..Len(s) : Char(s, i) = "."})

\* the enclosing SPEC-HIERARCHY of node j, 0 for a root-level node
Parent(sp, j) ==
  IF sp.depth[j] = 0 THEN 0
  ELSE CHOOSE k \in 1..(j - 1) :
         /\ sp.depth[k] = sp.depth[j] - 1
         /\ \A m \in (k + 1)..(j - 1) : sp.depth[m] >= sp.depth[j]

\* the siblings before node j, resolved or not
PrecedingSiblings(sp, j) ==
  {k \in 1..(j - 1) : sp.depth[k] = sp.depth[j] /\ Parent(sp, k) = Parent(sp, j)}

Position(sp, j) == Cardinality(PrecedingSiblings(sp, j)) + 1

RECURSIVE Path(_, _)
Path(sp, j) ==
  IF Parent(sp, j) = 0 THEN <<Position(sp, j)>>
  ELSE Path(sp, Parent(sp, j)) \o <<Position(sp, j)>>

RECURSIVE Dotted(_)
Dotted(path) ==
  IF Len(path) = 1 THEN Str(path[1])
  ELSE Dotted(SubSeq(path, 1, Len(path) - 1)) \o "." \o Str(path[Len(path)])

RECURSIVE Ancestors(_, _)
Ancestors(sp, j) ==
  IF Parent(sp, j) = 0 THEN {}
  ELSE {Parent(sp, j)} \cup Ancestors(sp, Parent(sp, j))

Known(r) == r # NoElem /\ r \in DOMAIN objects

RECURSIVE PreOrderFrom(_)
PreOrderFrom(i) ==
  IF i > Len(doc.specs) THEN <<>>
  ELSE SelectSeq(doc.specs[i].ref, Known) \o PreOrderFrom(i + 1)

\* the identifiers some SPEC-HIERARCHY references
Referenced == UNION {Range(doc.specs[i].ref) : i \in 1..Len(doc.specs)}

\* the walk is about to process node Top.nxt
AtNode == pc = "walk" /\ stack # <<>> /\ Top.nxt # 0

BeforeHierarchy == pc \in {"start", "parsed", "objects", "walk", "wrap", "wrapped"}

InLayout == pc \in {"req", "item", "line", "done"}

IsDraw(o) == o.op \in {"title", "heading", "text", "image", "ole", "link"}

-----------------------------------------------------------------------------
(* Properties *)

\* C1: no draw operation (title, heading, text line, image, link) is
\* emitted at a vertical position below the bottom margin.
C1_NoDrawBelowMargin ==
  \A k \in 1..Len(ops) : IsDraw(ops[k]) => ops[k].y >= margin

\* C2: after extract_hierarchy the traversal contains no identifier twice
\* and every identifier in it is a key of the object repository.
C2_TraversalUnique ==
  ~BeforeHierarchy =>
    /\ NoDuplicates(hierarchy)
    /\ Range(hierarchy) \subseteq DOMAIN objects

\* C3: processing a node whose reference resolves sets the object's
\* hierarchy number to the dotted path of sibling positions from the root
\* to the node, its level to the nesting depth (the number of dots of the
\* number) and appends the identifier; the finished traversal is the
\* resolved references in pre-order, which is document order.
C3_Numbering ==
  /\ [](pc = "hier" => hierarchy = PreOrderFrom(1))
  /\ [][(AtNode /\ Resolves(TopSpec.ref[Top.nxt], objects)) =>
          LET ref == TopSpec.ref[Top.nxt]
          IN  /\ objects'[ref].hnum = Dotted(Path(TopSpec, Top.nxt))
              /\ objects'[ref].level = TopSpec.depth[Top.nxt]
              /\ CountDots(objects'[ref].hnum) = objects'[ref].level
              /\ hierarchy' = Append(hierarchy, ref)]_vars

C3_Witness ==
  /\ pc = "hier"
  /\ Len(hierarchy) = 3
  /\ \E id \in DOMAIN objects :
       objects[id].hnum = "1.1.1" /\ objects[id].level = 2

\* C4: the sibling counter of a call is the number of siblings already
\* processed, resolved or not, so a resolved node with k preceding
\* siblings under a parent numbered P gets the number P.(k+1), and k+1 at
\* root level.
C4_SiblingCounter ==
  [][AtNode =>
      LET sh  == Top.nxt
          k   == Cardinality(PrecedingSiblings(TopSpec, sh))
          ref == TopSpec.ref[sh]
          p   == Parent(TopSpec, sh)
      IN  /\ Top.index = k
          /\ Resolves(ref, objects) =>
               objects'[ref].hnum =
                 (IF p = 0 THEN Str(k + 1)
                  ELSE Dotted(Path(TopSpec, p)) \o "." \o Str(k + 1))]_vars

\* siblings [unknown, a, b] under the node numbered 1
C4_Witness ==
  /\ pc = "hier"
  /\ Len(doc.specs) = 1
  /\ doc.specs[1].depth = <<0, 1, 1, 1>>
  /\ doc.specs[1].ref[2] = "zz"
  /\ doc.specs[1].ref[3] = "a"
  /\ doc.specs[1].ref[4] = "b"
  /\ objects["a"].hnum = "1.2"
  /\ objects["b"].hnum = "1.3"

\* C5: processing a node whose reference does not resolve leaves the
\* traversal and every object unchanged and still calls _walk_hierarchy
\* on its CHILDREN with the node's own number path; a resolved node below
\* an unresolved ancestor is numbered by its path and appended, and is in
\* the finished traversal.
C5_UnresolvedSkipped ==
  /\ [][(AtNode /\ ~Resolves(TopSpec.ref[Top.nxt], objects)) =>
          /\ objects' = objects
          /\ hierarchy' = hierarchy
          /\ TopSpec.kids[Top.nxt] =>
               /\ Len(stack') = Len(stack) + 1
               /\ Head(stack').counters = Path(TopSpec, Top.nxt)
               /\ Head(stack').level = TopSpec.depth[Top.nxt] + 1
               /\ Head(stack').nxt = FirstChild(TopSpec, Top.nxt)]_vars
  /\ [][(/\ AtNode
          /\ Resolves(TopSpec.ref[Top.nxt], objects)
          /\ \E a \in Ancestors(TopSpec, Top.nxt) :
                ~Resolves(TopSpec.ref[a], objects)) =>
          /\ objects'[TopSpec.ref[Top.nxt]].hnum = Dotted(Path(TopSpec, Top.nxt))
          /\ hierarchy' = Append(hierarchy, TopSpec.ref[Top.nxt])]_vars
  /\ [](pc = "hier" =>
          \A i \in 1..Len(doc.specs) : \A j \in 1..NodeCount(doc.specs[i]) :
            (/\ Known(doc.specs[i].ref[j])
             /\ \E a \in Ancestors(doc.specs[i], j) : ~Known(doc.specs[i].ref[a]))
            => doc.specs[i].ref[j] \in Range(hierarchy))

\* a resolved node below two unresolved ancestors
C5_Witness ==
  /\ pc = "hier"
  /\ Len(doc.specs) = 1
  /\ doc.specs[1].depth = <<0, 0, 1, 2>>
  /\ doc.specs[1].ref = <<"b", "zz", "zz", "a">>
  /\ hierarchy = <<"b", "a">>
  /\ objects["a"].hnum = "2.1.1"
  /\ objects["a"].level = 2

\* C6: after extract_objects and extract_hierarchy every object of the
\* traversal has a non-empty hierarchy number, and every object no
\* hierarchy node references has level 0, an empty number, is absent from
\* the traversal and gets no heading drawn.
C6_NumberedOrExcluded ==
  ~BeforeHierarchy =>
    /\ \A i \in 1..Len(hierarchy) : objects[hierarchy[i]].hnum # ""
    /\ \A id \in DOMAIN objects \ Referenced :
         /\ objects[id].level = 0
         /\ objects[id].hnum = ""
         /\ id \notin Range(hierarchy)
         /\ \A k \in 1..Len(ops) :
              ops[k].op = "heading" => hierarchy[ops[k].req] # id

C6_Witness ==
  /\ pc = "done"
  /\ DOMAIN objects = {"a", "b"}
  /\ "b" \notin Referenced
  /\ hierarchy = <<"a", "a">>
  /\ objects["a"].hnum = "1.1"
  /\ objects["b"].hnum = ""

Malformed ==
  \/ ~doc.hasObjs
  \/ ~doc.hasSpecs
  \/ \E i \in 1..Len(doc.specObjects) : doc.specObjects[i].id = None

\* C7: a document without object collection, without hierarchy section or
\* with a requirement-object definition without identifier never reaches
\* the layout, performs no canvas operation and stores no object under a
\* missing identifier.
C7_MalformedIsFatal ==
  Malformed =>
    /\ ~InLayout
    /\ ops = <<>>
    /\ None \notin DOMAIN objects

\* C8: no line of a text item is drawn with the cursor below the
\* near-bottom threshold margin + 80.
C8_EveryLineChecked ==
  \A k \in 1..Len(ops) : ops[k].op = "text" => ops[k].y >= Threshold

\* C9: every line wrap returns is at most max_len long, a line ends only
\* where the next word would not have fitted on it, and the words of the
\* lines in order are the words of the text.
C9_WrapGreedy ==
  pc = "wrapped" =>
    /\ \A i \in 1..Len(wres) : Len(wres[i]) <= wmax
    /\ \A i \in 1..(Len(wres) - 1) :
         LET w == Words(wres[i + 1])[1]
         IN  Len(IF wres[i] = "" THEN w ELSE wres[i] \o " " \o w) > wmax
    /\ Words(Join(" ", wres)) = Words(wtext)

ContentOf(i) == objects[hierarchy[i]].content

OpsOf(i, k) == {n \in 1..Len(ops) : ops[n].req = i /\ ops[n].item = k}

\* C10: a finished run has drawn one heading per traversal entry in
\* traversal order, every operation of a requirement after its heading
\* and before the heading of the next, and has saved once, as the last
\* operation; an image item without file has no operation, every other
\* item has one; nothing is saved before the run finishes.
C10_HeadingsThenSave ==
  LET heads == SelectSeq(ops, LAMBDA o : o.op = "heading")
      saves == {n \in 1..Len(ops) : ops[n].op = "save"}
  IN  /\ pc # "done" => saves = {}
      /\ pc = "done" =>
           /\ saves = {Len(ops)}
           /\ Len(heads) = Len(hierarchy)
           /\ \A i \in 1..Len(heads) : heads[i].req = i
           /\ \A m, n \in 1..(Len(ops) - 1) :
                (m < n /\ ops[m].op # "title") => ops[m].req <= ops[n].req
           /\ \A n \in 1..Len(ops) :
                ops[n].item # 0 =>
                  \E m \in 1..(n - 1) :
                    ops[m].op = "heading" /\ ops[m].req = ops[n].req
           /\ \A i \in 1..Len(hierarchy) : \A k \in 1..Len(ContentOf(i)) :
                IF ContentOf(i)[k].kind = "image" /\ ~ContentOf(i)[k].val.exists
                THEN OpsOf(i, k) = {}
                ELSE OpsOf(i, k) # {}

\* a missing image before drawn items, and a page break before the
\* second heading
C10_Witness ==
  /\ pc = "done"
  /\ Len(hierarchy) = 2
  /\ ContentOf(1) = <<MissingImg, TallImg, TallImg, TallImg>>
  /\ \E n \in 1..Len(ops) : ops[n].op = "showPage" /\ ops[n].req = 2

=============================================================================
